---- MODULE Spec2Model ----
(***************************************************************************)
(* Authenticated BLE session between the ESP32 peripheral firmware         *)
(* (src/unnamed/part_000) and the React Native controller (src/App.tsx).   *)
(*                                                                         *)
(* The peripheral runs two tasks: the BLE task, which runs the server and  *)
(* characteristic callbacks one event at a time in arrival order, and the  *)
(* Arduino loop task.  The controller is a React component whose handlers  *)
(* run on one JavaScript thread and see the state values of the render in  *)
(* which they were created.                                                *)
(***************************************************************************)
EXTENDS Integers, Sequences, FiniteSets, TLC

(***************************************************************************)
(* Bounds of the model.                                                    *)
(***************************************************************************)
MaxQueue == 2       \* writes a central may have queued at the peripheral
MaxLog == 5         \* Status notifications recorded per peripheral session
MaxNotify == 1      \* notifications on their way to the controller
MaxMessages == 2    \* entries of the controller's received-message log
MaxTimers == 2      \* scan-timeout timers armed at once
MaxAppWrites == 1   \* writes of the controller not yet handled by the peripheral

(***************************************************************************)
(* Program constants.                                                      *)
(***************************************************************************)
devicePassword == "HEALTH2024"
maxAuthAttempts == 3
EchoTag == "ESP32: "
healthData == "HeartRate:75,SpO2:98"

AUTH_REQUIRED == "AUTH_REQUIRED"
AUTH_SUCCESS == "AUTH_SUCCESS"
AUTH_FAILED_MAX == "AUTH_FAILED_MAX"
AUTH_FAILED_PREFIX == "AUTH_FAILED:"

(***************************************************************************)
(* Inputs: the values a central writes to the Auth and Data channels.      *)
(***************************************************************************)
AuthPayloads == {"", "HEALTH2024", " HEALTH2024\n", "wrong1", " "}
DataPayloads == {"", "ping", "hi"}

VARIABLES
  \* peripheral globals (part_000)
  deviceConnected, isAuthenticated, authAttempts,
  statusValue, dataValue,      \* values of the Status and Data characteristics
  advertising,                 \* BLEDevice advertising is on
  cbPc, cbValue,               \* DataCallbacks::onWrite: position and payload
  loopPc,                      \* loop(): position
  \* transport
  linkUp,                      \* the link between central and peripheral
  pQueue,                      \* events queued for the peripheral's BLE task
  cQueue,                      \* notifications on their way to the controller
  statusMonitor, dataMonitor,  \* the controller's live subscriptions
  \* controller state (App.tsx)
  connectedDevice, appAuthenticated, receivedMessages, showPasswordModal,
  scanning, scanName,          \* bleManager's device scan and its target name
  timers,                      \* armed scan-timeout timers, oldest first
  capturedDevice,              \* connectedDevice as the connect closures see it
  connPc,                      \* connectToDevice: position
  discPc,                      \* disconnect: position
  \* history
  statusLog,                   \* Status tokens notified in this session
  dataSent,                    \* Data values notified by the latest step
  lastHandled,                 \* the latest BLE callback that ran
  prevSession,                 \* how the previous session stood when it ended
  lastOp,                      \* the latest controller handler and its outcome
  linkEnd,                     \* who ended the latest link
  tracing                      \* whether the peripheral's history is recorded

pVars == <<deviceConnected, isAuthenticated, authAttempts, statusValue,
           dataValue, advertising, cbPc, cbValue, loopPc>>
tVars == <<linkUp, pQueue, cQueue, statusMonitor, dataMonitor>>
cVars == <<connectedDevice, appAuthenticated, receivedMessages, showPasswordModal, scanning, scanName, timers, capturedDevice,
           connPc, discPc>>
hVars == <<statusLog, dataSent, lastHandled, prevSession, lastOp, linkEnd,
           tracing>>
vars == <<pVars, tVars, cVars, hVars>>

(***************************************************************************)
(* String helpers.                                                         *)
(***************************************************************************)
IsSpace(c) == c \in {" ", "\t", "\n", "\r"}

RECURSIVE TrimLeft(_)
TrimLeft(s) ==
  IF Len(s) > 0 /\ IsSpace(SubSeq(s, 1, 1))
    THEN TrimLeft(SubSeq(s, 2, Len(s)))
    ELSE s

RECURSIVE TrimRight(_)
TrimRight(s) ==
  IF Len(s) > 0 /\ IsSpace(SubSeq(s, Len(s), Len(s)))
    THEN TrimRight(SubSeq(s, 1, Len(s) - 1))
    ELSE s

\* String::trim()
Trim(s) == TrimRight(TrimLeft(s))

\* Mutant: the remaining count taken before the increment.
AuthFailedTokenStale(attempts) ==
  AUTH_FAILED_PREFIX \o ToString(maxAuthAttempts - attempts + 1)

\* "AUTH_FAILED:" + String(maxAuthAttempts - authAttempts)
AuthFailedToken(attempts) ==
  AUTH_FAILED_PREFIX \o ToString(maxAuthAttempts - attempts)

\* "ESP32: " + receivedData
EchoResponse(receivedData) == EchoTag \o receivedData

Event(e, v) == [ev |-> e, val |-> v]

(***************************************************************************)
(* Initial state: the peripheral after setup(), the controller after the   *)
(* first render of AppContent.                                             *)
(***************************************************************************)
NoDevice == "null"
DeviceName == "ESP32_Health"

Boot ==
  /\ deviceConnected = FALSE
  /\ isAuthenticated = FALSE
  /\ authAttempts = 0
  /\ statusValue = ""
  /\ dataValue = ""
  /\ advertising = TRUE
  /\ cbPc = "idle"
  /\ cbValue = ""
  /\ loopPc = "check"
  /\ linkUp = FALSE
  /\ pQueue = <<>>
  /\ cQueue = <<>>
  /\ statusMonitor = FALSE
  /\ dataMonitor = FALSE
  /\ connectedDevice = NoDevice
  /\ appAuthenticated = FALSE
  /\ receivedMessages = <<>>
  /\ showPasswordModal = FALSE
  /\ scanning = FALSE
  /\ scanName = ""
  /\ timers = <<>>
  /\ capturedDevice = NoDevice
  /\ connPc = "idle"
  /\ discPc = "idle"
  /\ statusLog = <<>>
  /\ dataSent = <<>>
  /\ lastHandled = "none"
  /\ prevSession = "none"
  /\ lastOp = "none"
  /\ linkEnd = "none"

\* The peripheral's history is kept only where a property reads it.
Init == Boot /\ tracing = FALSE

(***************************************************************************)
(* History of the peripheral, recorded while tracing is on.                *)
(***************************************************************************)
Traced(new, old) == IF tracing THEN new ELSE old

\* A Status token is notified.
LogStatus(tok) == statusLog' = Traced(Append(statusLog, tok), statusLog)
\* A session starts with its first Status token.
LogSession(tok) == statusLog' = Traced(<<tok>>, statusLog)
\* The Data values this step notifies.
LogData(sent) == dataSent' = Traced(sent, dataSent)
\* The BLE callback this step ran.
LogHandled(cb) == lastHandled' = Traced(cb, lastHandled)

(***************************************************************************)
(* Transport.                                                              *)
(***************************************************************************)
\* BLECharacteristic::notify() on the Status characteristic: the value goes
\* to the controller when the link is up and the controller has subscribed.
StatusDelivered(q, tok) ==
  IF linkUp /\ statusMonitor THEN Append(q, Event("status", tok)) ELSE q

\* BLECharacteristic::notify() on the Data characteristic.
DataDelivered(q, v) ==
  IF linkUp /\ dataMonitor THEN Append(q, Event("data", v)) ELSE q

\* Room for one more notification on its way to the controller.
NotifyRoom == Len(cQueue) < MaxNotify

\* The link goes down: the peripheral's stack queues a Disconnected event,
\* the controller's subscriptions end, and the notifications still on their
\* way are delivered or lost.
LinkGoesDown(q, who) ==
  /\ linkUp' = FALSE
  /\ pQueue' = Append(q, Event("disconnect", ""))
  /\ statusMonitor' = FALSE
  /\ dataMonitor' = FALSE
  /\ linkEnd' = who

(***************************************************************************)
(* Peripheral: BLE task.  The head of pQueue is handled when no callback   *)
(* is in progress.                                                         *)
(***************************************************************************)
BleReady(e) == pQueue # <<>> /\ Head(pQueue).ev = e /\ cbPc = "idle"

\* Mutant: onConnect without deviceConnected = true.
OnConnectStateNoFlag ==
  /\ deviceConnected' = deviceConnected
  /\ isAuthenticated' = FALSE
  /\ authAttempts' = 0

\* MyServerCallbacks::onConnect, the three assignments
OnConnectState ==
  /\ deviceConnected' = TRUE
  /\ isAuthenticated' = FALSE
  /\ authAttempts' = 0

\* MyServerCallbacks::onConnect
BleOnConnect ==
  /\ BleReady("connect")
  /\ NotifyRoom
  /\ OnConnectState
  /\ statusValue' = AUTH_REQUIRED
  /\ cQueue' = StatusDelivered(cQueue, AUTH_REQUIRED)
  /\ pQueue' = Tail(pQueue)
  /\ LogSession(AUTH_REQUIRED)
  /\ LogData(<<>>)
  /\ UNCHANGED tracing
  /\ LogHandled("onConnect")
  /\ UNCHANGED <<dataValue, advertising, cbPc, cbValue, loopPc>>
  /\ UNCHANGED <<linkUp, statusMonitor, dataMonitor>>
  /\ UNCHANGED <<cVars, prevSession, lastOp, linkEnd>>

\* How the session stands when it ends.
SessionEnd ==
  IF \E i \in 1..Len(statusLog) : statusLog[i] = AUTH_FAILED_MAX THEN "lockout"
  ELSE IF isAuthenticated THEN "authenticated"
  ELSE "plain"

\* Mutant: onDisconnect without isAuthenticated = false.
OnDisconnectStateKeepsAuth ==
  /\ deviceConnected' = FALSE
  /\ isAuthenticated' = isAuthenticated
  /\ authAttempts' = 0

\* MyServerCallbacks::onDisconnect, the three assignments
OnDisconnectState ==
  /\ deviceConnected' = FALSE
  /\ isAuthenticated' = FALSE
  /\ authAttempts' = 0

\* MyServerCallbacks::onDisconnect
BleOnDisconnect ==
  /\ BleReady("disconnect")
  /\ OnDisconnectState
  /\ advertising' = TRUE
  /\ pQueue' = Tail(pQueue)
  /\ prevSession' = Traced(SessionEnd, prevSession)
  /\ LogData(<<>>)
  /\ UNCHANGED tracing
  /\ LogHandled("onDisconnect")
  /\ UNCHANGED <<statusValue, dataValue, cbPc, cbValue, loopPc>>
  /\ UNCHANGED <<linkUp, cQueue, statusMonitor, dataMonitor>>
  /\ UNCHANGED <<cVars, statusLog, lastOp, linkEnd>>

\* Mutant: the callbacks without their length test.
NonEmptyAlways(value) == TRUE

\* value.length() > 0
NonEmpty(value) == Len(value) > 0

\* Mutant: the comparison without trim().
PasswordMatchesUntrimmed(value) == value = devicePassword

\* receivedPassword == devicePassword, after receivedPassword.trim()
PasswordMatches(value) == Trim(value) = devicePassword

\* AuthCallbacks::onWrite
AuthOnWrite ==
  /\ BleReady("authWrite")
  /\ NotifyRoom
  /\ LET value == Head(pQueue).val
         rest == Tail(pQueue)
     IN
     IF NonEmpty(value) THEN
       IF PasswordMatches(value) THEN
         /\ isAuthenticated' = TRUE
         /\ authAttempts' = 0
         /\ statusValue' = AUTH_SUCCESS
         /\ cQueue' = StatusDelivered(cQueue, AUTH_SUCCESS)
         /\ LogStatus(AUTH_SUCCESS)
         /\ pQueue' = rest
         /\ UNCHANGED <<linkUp, statusMonitor, dataMonitor, linkEnd>>
       ELSE
         /\ authAttempts' = authAttempts + 1
         /\ UNCHANGED isAuthenticated
         /\ IF authAttempts + 1 >= maxAuthAttempts THEN
              /\ statusValue' = AUTH_FAILED_MAX
              /\ LogStatus(AUTH_FAILED_MAX)
              \* delay(100); pServer->disconnect(pServer->getConnId())
              /\ IF linkUp THEN
                   /\ cQueue' \in {StatusDelivered(cQueue, AUTH_FAILED_MAX), <<>>}
                   /\ LinkGoesDown(rest, "remote")
                 ELSE
                   /\ cQueue' = cQueue
                   /\ pQueue' = rest
                   /\ UNCHANGED <<linkUp, statusMonitor, dataMonitor, linkEnd>>
            ELSE
              /\ statusValue' = AuthFailedToken(authAttempts + 1)
              /\ cQueue' = StatusDelivered(cQueue, AuthFailedToken(authAttempts + 1))
              /\ LogStatus(AuthFailedToken(authAttempts + 1))
              /\ pQueue' = rest
              /\ UNCHANGED <<linkUp, statusMonitor, dataMonitor, linkEnd>>
     ELSE
       /\ pQueue' = rest
       /\ UNCHANGED <<isAuthenticated, authAttempts, statusValue, cQueue>>
       /\ UNCHANGED <<linkUp, statusMonitor, dataMonitor, linkEnd, statusLog>>
  /\ LogData(<<>>)
  /\ UNCHANGED tracing
  /\ LogHandled("authWrite")
  /\ UNCHANGED <<deviceConnected, dataValue, advertising, cbPc, cbValue, loopPc>>
  /\ UNCHANGED <<cVars, prevSession, lastOp>>

\* Mutant: the Data callback without its authentication guard.
DataWriteAlwaysAccepted == TRUE

\* DataCallbacks::onWrite, the guard: if (!isAuthenticated) return
DataWriteAccepted == isAuthenticated

\* DataCallbacks::onWrite up to pDataCharacteristic->setValue(response).
\* The stack has stored the written value in the characteristic.
DataOnWrite ==
  /\ BleReady("dataWrite")
  /\ LET value == Head(pQueue).val IN
     IF DataWriteAccepted /\ NonEmpty(value) THEN
       /\ dataValue' = EchoResponse(value)
       /\ cbPc' = "notify"
       /\ cbValue' = value
     ELSE
       /\ dataValue' = value
       /\ UNCHANGED <<cbPc, cbValue>>
  /\ pQueue' = Tail(pQueue)
  /\ LogData(<<>>)
  /\ UNCHANGED tracing
  /\ LogHandled("dataWrite")
  /\ UNCHANGED <<deviceConnected, isAuthenticated, authAttempts, statusValue,
                 advertising, loopPc>>
  /\ UNCHANGED <<linkUp, cQueue, statusMonitor, dataMonitor>>
  /\ UNCHANGED <<cVars, statusLog, prevSession, lastOp, linkEnd>>

\* DataCallbacks::onWrite, pDataCharacteristic->notify()
DataOnWriteNotify ==
  /\ cbPc = "notify"
  /\ NotifyRoom
  /\ LogData(<<dataValue>>)
  /\ UNCHANGED tracing
  /\ cQueue' = DataDelivered(cQueue, dataValue)
  /\ cbPc' = "idle"
  /\ cbValue' = ""
  /\ UNCHANGED <<deviceConnected, isAuthenticated, authAttempts, statusValue,
                 dataValue, advertising, loopPc>>
  /\ UNCHANGED <<linkUp, pQueue, statusMonitor, dataMonitor>>
  /\ UNCHANGED <<cVars, statusLog, lastHandled, prevSession, lastOp, linkEnd>>

(***************************************************************************)
(* Peripheral: loop task.                                                  *)
(***************************************************************************)
\* loop(): if (deviceConnected && isAuthenticated), and 5 s have passed
LoopCheck ==
  /\ loopPc = "check"
  /\ deviceConnected /\ isAuthenticated
  /\ loopPc' = "set"
  /\ LogData(<<>>)
  /\ UNCHANGED tracing
  /\ UNCHANGED <<deviceConnected, isAuthenticated, authAttempts, statusValue,
                 dataValue, advertising, cbPc, cbValue>>
  /\ UNCHANGED <<tVars, cVars, statusLog, lastHandled, prevSession, lastOp, linkEnd>>

\* loop(): pDataCharacteristic->setValue(healthData.c_str())
LoopSetValue ==
  /\ loopPc = "set"
  /\ dataValue' = healthData
  /\ loopPc' = "notify"
  /\ LogData(<<>>)
  /\ UNCHANGED tracing
  /\ UNCHANGED <<deviceConnected, isAuthenticated, authAttempts, statusValue,
                 advertising, cbPc, cbValue>>
  /\ UNCHANGED <<tVars, cVars, statusLog, lastHandled, prevSession, lastOp, linkEnd>>

\* loop(): pDataCharacteristic->notify()
LoopNotify ==
  /\ loopPc = "notify"
  /\ NotifyRoom
  /\ LogData(<<dataValue>>)
  /\ UNCHANGED tracing
  /\ cQueue' = DataDelivered(cQueue, dataValue)
  /\ loopPc' = "check"
  /\ UNCHANGED <<deviceConnected, isAuthenticated, authAttempts, statusValue,
                 dataValue, advertising, cbPc, cbValue>>
  /\ UNCHANGED <<linkUp, pQueue, statusMonitor, dataMonitor>>
  /\ UNCHANGED <<cVars, statusLog, lastHandled, prevSession, lastOp, linkEnd>>

\* One pass of loop() that sends, taken as a whole: what the controller
\* sees of the loop task.
LoopSend ==
  /\ loopPc = "check"
  /\ deviceConnected /\ isAuthenticated
  /\ cbPc = "idle"
  /\ NotifyRoom
  /\ dataValue' = healthData
  /\ LogData(<<healthData>>)
  /\ UNCHANGED tracing
  /\ cQueue' = DataDelivered(cQueue, healthData)
  /\ UNCHANGED <<deviceConnected, isAuthenticated, authAttempts, statusValue,
                 advertising, cbPc, cbValue, loopPc>>
  /\ UNCHANGED <<linkUp, pQueue, statusMonitor, dataMonitor>>
  /\ UNCHANGED <<cVars, statusLog, lastHandled, prevSession, lastOp, linkEnd>>

(***************************************************************************)
(* Any central, as the peripheral sees it.                                 *)
(***************************************************************************)
WriteRoom == linkUp /\ Len(pQueue) < MaxQueue

CentralConnect ==
  /\ advertising /\ ~linkUp
  /\ linkUp' = TRUE
  /\ advertising' = FALSE
  /\ pQueue' = Append(pQueue, Event("connect", ""))
  /\ linkEnd' = "none"
  /\ LogData(<<>>)
  /\ UNCHANGED tracing
  /\ UNCHANGED <<deviceConnected, isAuthenticated, authAttempts, statusValue,
                 dataValue, cbPc, cbValue, loopPc>>
  /\ UNCHANGED <<cQueue, statusMonitor, dataMonitor>>
  /\ UNCHANGED <<cVars, statusLog, lastHandled, prevSession, lastOp>>

CentralAuthWrite ==
  /\ WriteRoom
  /\ Len(statusLog) + Len(pQueue) < MaxLog
  /\ \E p \in AuthPayloads : pQueue' = Append(pQueue, Event("authWrite", p))
  /\ LogData(<<>>)
  /\ UNCHANGED tracing
  /\ UNCHANGED <<pVars, linkUp, cQueue, statusMonitor, dataMonitor>>
  /\ UNCHANGED <<cVars, statusLog, lastHandled, prevSession, lastOp, linkEnd>>

CentralDataWrite ==
  /\ WriteRoom
  /\ \E p \in DataPayloads : pQueue' = Append(pQueue, Event("dataWrite", p))
  /\ LogData(<<>>)
  /\ UNCHANGED tracing
  /\ UNCHANGED <<pVars, linkUp, cQueue, statusMonitor, dataMonitor>>
  /\ UNCHANGED <<cVars, statusLog, lastHandled, prevSession, lastOp, linkEnd>>

\* The central ends the link, or the link is lost.
CentralLinkDown ==
  /\ linkUp
  /\ LinkGoesDown(pQueue, "remote")
  /\ LogData(<<>>)
  /\ UNCHANGED tracing
  /\ UNCHANGED <<pVars, cQueue>>
  /\ UNCHANGED <<cVars, statusLog, lastHandled, prevSession, lastOp>>

BleNext ==
  \/ BleOnConnect
  \/ BleOnDisconnect
  \/ AuthOnWrite
  \/ DataOnWrite
  \/ DataOnWriteNotify

LoopNext ==
  \/ LoopCheck
  \/ LoopSetValue
  \/ LoopNotify

PeripheralNext == BleNext \/ LoopNext

CentralNext ==
  \/ CentralConnect
  \/ CentralAuthWrite
  \/ CentralDataWrite
  \/ CentralLinkDown

\* The peripheral firmware with an arbitrary central, its history recorded.
PeripheralInit == Boot /\ tracing = TRUE

PeripheralSpec == PeripheralInit /\ [][PeripheralNext \/ CentralNext]_vars

(***************************************************************************)
(* Controller (App.tsx).  Each handler runs to its first await in one      *)
(* step; what follows an await is a step of its own.  One connectToDevice  *)
(* call and one disconnect call are in progress at a time.  The status     *)
(* line, the alerts and the text of the input fields are display only and  *)
(* are not state of the model: of the status line only the not-found       *)
(* report is kept, in lastOp.  The payloads are the decoded strings; their *)
(* base64 coding is not modelled.                                          *)
(***************************************************************************)
\* What the user may type as a password or a message.
PasswordInputs == {"HEALTH2024", "wrong1", " "}
MessageInputs == {"ping", " "}
\* What the QR decoder may hand over.
QrCodes == {"ESP32_Health", "ESP32_Health:24:6F:28", "Other"}

\* qrData.split(':')[0]
RECURSIVE BeforeColon(_)
BeforeColon(s) ==
  IF Len(s) = 0 \/ SubSeq(s, 1, 1) = ":"
    THEN ""
    ELSE SubSeq(s, 1, 1) \o BeforeColon(SubSeq(s, 2, Len(s)))

\* The text after the first ':' of s.
RECURSIVE AfterColon(_)
AfterColon(s) ==
  IF Len(s) = 0 THEN ""
  ELSE IF SubSeq(s, 1, 1) = ":" THEN SubSeq(s, 2, Len(s))
  ELSE AfterColon(SubSeq(s, 2, Len(s)))

\* Mutant: the whole token shown as the count.
AttemptsLeftWholeToken(status) == status

\* status.split(':')[1] || '0'
AttemptsLeft(status) ==
  IF BeforeColon(AfterColon(status)) = "" THEN "0"
  ELSE BeforeColon(AfterColon(status))

\* status.startsWith('AUTH_FAILED:')
StartsWith(s, prefix) ==
  Len(s) >= Len(prefix) /\ SubSeq(s, 1, Len(prefix)) = prefix

\* The values disconnect() sets after cancelConnection() resolves.
MirrorReset ==
  /\ connectedDevice' = NoDevice
  /\ appAuthenticated' = FALSE
  /\ receivedMessages' = <<>>
  /\ showPasswordModal' = FALSE

\* connectToDeviceByName(deviceName), called from the manual button or from
\* onCodeScanned; both are on screen while connectedDevice is null.  The
\* closures created here keep the connectedDevice of this render.
\* startDeviceScan() replaces a scan that is running; the timer is armed
\* with the connectedDevice its callback will see, and records whether the
\* scan of this call has matched.
ConnectToDeviceByName ==
  /\ connectedDevice = NoDevice
  /\ Len(timers) < MaxTimers
  /\ \E qr \in QrCodes :
       /\ scanName' = BeforeColon(qr)
  /\ scanning' = TRUE
  /\ timers' = Append(timers, [view |-> connectedDevice, found |-> FALSE])
  /\ capturedDevice' = connectedDevice
  /\ lastOp' = "other"
  /\ LogData(<<>>)
  /\ UNCHANGED tracing
  /\ UNCHANGED <<connectedDevice, appAuthenticated, receivedMessages,
                 showPasswordModal, connPc, discPc>>
  /\ UNCHANGED <<pVars, tVars, statusLog, lastHandled, prevSession, linkEnd>>

\* The scan callback on a matching advertisement: stopDeviceScan(), then
\* connectToDevice(device) up to await device.connect().
ScanFound ==
  /\ scanning
  /\ advertising
  /\ scanName = DeviceName
  /\ connPc = "idle"
  /\ scanning' = FALSE
  /\ scanName' = ""
  /\ connPc' = "connecting"
  /\ timers' = [timers EXCEPT ![Len(timers)].found = TRUE]
  /\ lastOp' = "other"
  /\ LogData(<<>>)
  /\ UNCHANGED tracing
  /\ UNCHANGED <<connectedDevice, appAuthenticated, receivedMessages,
                 showPasswordModal, capturedDevice, discPc>>
  /\ UNCHANGED <<pVars, tVars, statusLog, lastHandled, prevSession, linkEnd>>

\* The setTimeout callback of connectToDeviceByName; the timers have the
\* same delay and fire oldest first.  stopDeviceScan() stops whatever scan
\* is running; "Device not found" is reported when the connectedDevice of
\* the callback's closure is null.
ScanTimeout ==
  /\ timers # <<>>
  /\ timers' = Tail(timers)
  /\ scanning' = FALSE
  /\ scanName' = ""
  /\ lastOp' = IF Head(timers).view = NoDevice THEN "notFound" ELSE "other"
  /\ LogData(<<>>)
  /\ UNCHANGED tracing
  /\ UNCHANGED <<connectedDevice, appAuthenticated, receivedMessages,
                 showPasswordModal, capturedDevice, connPc, discPc>>
  /\ UNCHANGED <<pVars, tVars, statusLog, lastHandled, prevSession, linkEnd>>

\* connectToDevice: device.connect() resolves; deviceRef and connectedDevice
\* are set; up to await discoverAllServicesAndCharacteristics().
ConnectOk ==
  /\ connPc = "connecting"
  /\ advertising /\ ~linkUp
  /\ linkUp' = TRUE
  /\ advertising' = FALSE
  /\ pQueue' = Append(pQueue, Event("connect", ""))
  /\ connectedDevice' = DeviceName
  /\ connPc' = "discovering"
  /\ linkEnd' = "none"
  /\ lastOp' = "other"
  /\ LogData(<<>>)
  /\ UNCHANGED tracing
  /\ UNCHANGED <<deviceConnected, isAuthenticated, authAttempts, statusValue,
                 dataValue, cbPc, cbValue, loopPc>>
  /\ UNCHANGED <<cQueue, statusMonitor, dataMonitor>>
  /\ UNCHANGED <<appAuthenticated, receivedMessages, showPasswordModal, scanning, scanName, timers,
                 capturedDevice, discPc>>
  /\ UNCHANGED <<statusLog, lastHandled, prevSession>>

\* connectToDevice: device.connect() rejects; the catch block.
ConnectFail ==
  /\ connPc = "connecting"
  /\ connPc' = "idle"
  /\ lastOp' = "connectFailed"
  /\ LogData(<<>>)
  /\ UNCHANGED tracing
  /\ UNCHANGED <<connectedDevice, appAuthenticated, receivedMessages,
                 showPasswordModal, scanning, scanName, timers,
                 capturedDevice, discPc>>
  /\ UNCHANGED <<pVars, tVars, statusLog, lastHandled, prevSession, linkEnd>>

\* connectToDevice: discovery resolves; both monitors are registered.
DiscoverOk ==
  /\ connPc = "discovering"
  /\ linkUp
  /\ statusMonitor' = TRUE
  /\ dataMonitor' = TRUE
  /\ connPc' = "idle"
  /\ lastOp' = "other"
  /\ LogData(<<>>)
  /\ UNCHANGED tracing
  /\ UNCHANGED <<connectedDevice, appAuthenticated, receivedMessages,
                 showPasswordModal, scanning, scanName, timers,
                 capturedDevice, discPc>>
  /\ UNCHANGED <<pVars, linkUp, pQueue, cQueue>>
  /\ UNCHANGED <<statusLog, lastHandled, prevSession, linkEnd>>

\* connectToDevice: discovery rejects because the link is gone; the catch
\* block.
DiscoverFail ==
  /\ connPc = "discovering"
  /\ ~linkUp
  /\ connPc' = "idle"
  /\ lastOp' = "connectFailed"
  /\ LogData(<<>>)
  /\ UNCHANGED tracing
  /\ UNCHANGED <<connectedDevice, appAuthenticated, receivedMessages,
                 showPasswordModal, scanning, scanName, timers,
                 capturedDevice, discPc>>
  /\ UNCHANGED <<pVars, tVars, statusLog, lastHandled, prevSession, linkEnd>>

\* disconnect() as called with `view` for connectedDevice, up to
\* await cancelConnection(); q is cQueue as the caller leaves it.
\* Cancelling a link that is already down rejects or resolves.
DisconnectCall(view, q) ==
  IF view = NoDevice THEN
    /\ cQueue' = q
    /\ UNCHANGED <<linkUp, pQueue, statusMonitor, dataMonitor, linkEnd, discPc>>
  ELSE IF linkUp THEN
    /\ LinkGoesDown(pQueue, "local")
    /\ cQueue' \in {q, <<>>}
    /\ discPc' = "resolved"
  ELSE
    /\ cQueue' = q
    /\ discPc' \in {"resolved", "rejected"}
    /\ UNCHANGED <<linkUp, pQueue, statusMonitor, dataMonitor, linkEnd>>

\* handleStatusUpdate(status), as the Status monitor callback calls it: the
\* handler of the render in which connectToDeviceByName was called.
HandleStatusUpdate(status, q) ==
  IF status = "AUTH_REQUIRED" THEN
    /\ showPasswordModal' = TRUE
    /\ lastOp' = "other"
    /\ cQueue' = q
    /\ UNCHANGED appAuthenticated
    /\ UNCHANGED <<linkUp, pQueue, statusMonitor, dataMonitor, linkEnd, discPc>>
  ELSE IF status = "AUTH_SUCCESS" THEN
    /\ appAuthenticated' = TRUE
    /\ showPasswordModal' = FALSE
    /\ lastOp' = "other"
    /\ cQueue' = q
    /\ UNCHANGED <<linkUp, pQueue, statusMonitor, dataMonitor, linkEnd, discPc>>
  ELSE IF StartsWith(status, "AUTH_FAILED:") THEN
    \* Alert.alert('Wrong Password', `${attemptsLeft} attempts left`)
    /\ lastOp' = "attemptsLeft:" \o AttemptsLeft(status)
    /\ cQueue' = q
    /\ UNCHANGED <<appAuthenticated, showPasswordModal>>
    /\ UNCHANGED <<linkUp, pQueue, statusMonitor, dataMonitor, linkEnd, discPc>>
  ELSE IF status = "AUTH_FAILED_MAX" THEN
    /\ showPasswordModal' = FALSE
    /\ lastOp' = "statusMax"
    /\ DisconnectCall(capturedDevice, q)
    /\ UNCHANGED appAuthenticated
  ELSE
    /\ lastOp' = "other"
    /\ cQueue' = q
    /\ UNCHANGED <<appAuthenticated, showPasswordModal>>
    /\ UNCHANGED <<linkUp, pQueue, statusMonitor, dataMonitor, linkEnd, discPc>>

\* The Status monitor callback on a notification.
DeliverStatus ==
  /\ cQueue # <<>>
  /\ Head(cQueue).ev = "status"
  /\ discPc = "idle"
  /\ IF Head(cQueue).val # ""
       THEN HandleStatusUpdate(Head(cQueue).val, Tail(cQueue))
       ELSE /\ cQueue' = Tail(cQueue)
            /\ lastOp' = "other"
            /\ UNCHANGED <<appAuthenticated, showPasswordModal>>
            /\ UNCHANGED <<linkUp, pQueue, statusMonitor, dataMonitor,
                           linkEnd, discPc>>
  /\ LogData(<<>>)
  /\ UNCHANGED tracing
  /\ UNCHANGED <<connectedDevice, receivedMessages, scanning, scanName,
                 timers, capturedDevice, connPc>>
  /\ UNCHANGED <<pVars, statusLog, lastHandled, prevSession>>

\* Mutant: the log rebuilt from the empty log of the callback's closure.
MessagesAppendedToCaptured(prev, data) == <<data>>

\* setReceivedMessages(prev => [...prev, data])
MessagesAppended(prev, data) == Append(prev, data)

\* The Data monitor callback on a notification.
DeliverData ==
  /\ cQueue # <<>>
  /\ Head(cQueue).ev = "data"
  /\ Len(receivedMessages) < MaxMessages
  /\ receivedMessages' = IF Head(cQueue).val # ""
                           THEN MessagesAppended(receivedMessages, Head(cQueue).val)
                           ELSE receivedMessages
  /\ cQueue' = Tail(cQueue)
  /\ lastOp' = "other"
  /\ LogData(<<>>)
  /\ UNCHANGED tracing
  /\ UNCHANGED <<connectedDevice, appAuthenticated, showPasswordModal, scanning, scanName, timers,
                 capturedDevice, connPc, discPc>>
  /\ UNCHANGED <<pVars, linkUp, pQueue, statusMonitor, dataMonitor>>
  /\ UNCHANGED <<statusLog, lastHandled, prevSession, linkEnd>>

\* The "Enter Password" button: setShowPasswordModal(true).
EnterPassword ==
  /\ connectedDevice # NoDevice
  /\ ~appAuthenticated
  /\ ~showPasswordModal
  /\ showPasswordModal' = TRUE
  /\ lastOp' = "other"
  /\ LogData(<<>>)
  /\ UNCHANGED tracing
  /\ UNCHANGED <<connectedDevice, appAuthenticated, receivedMessages,
                 scanning, scanName, timers, capturedDevice,
                 connPc, discPc>>
  /\ UNCHANGED <<pVars, tVars, statusLog, lastHandled, prevSession, linkEnd>>

\* submitPassword(), from the Submit button of the password modal.  A write
\* on a link that is down rejects and only alerts.
SubmitPassword ==
  /\ showPasswordModal
  /\ \E passwordInput \in PasswordInputs :
       IF Trim(passwordInput) # "" /\ connectedDevice # NoDevice /\ linkUp
         THEN /\ Len(pQueue) < MaxAppWrites
              /\ pQueue' = Append(pQueue, Event("authWrite", passwordInput))
         ELSE UNCHANGED pQueue
  /\ lastOp' = "other"
  /\ LogData(<<>>)
  /\ UNCHANGED tracing
  /\ UNCHANGED <<connectedDevice, appAuthenticated, receivedMessages,
                 showPasswordModal, scanning, scanName, timers,
                 capturedDevice, connPc, discPc>>
  /\ UNCHANGED <<pVars, linkUp, cQueue, statusMonitor, dataMonitor>>
  /\ UNCHANGED <<statusLog, lastHandled, prevSession, linkEnd>>

\* Mutant: sendMessage without its isAuthenticated guard.
SendAllowedUnauthenticated(message) == Trim(message) # ""

\* sendMessage(), the two guards: isAuthenticated and message.trim()
SendAllowed(message) == appAuthenticated /\ Trim(message) # ""

\* sendMessage().  A write on a link that is down rejects and only alerts.
SendMessage ==
  /\ \E message \in MessageInputs :
       IF SendAllowed(message) /\ connectedDevice # NoDevice /\ linkUp
         THEN /\ Len(pQueue) < MaxAppWrites
              /\ pQueue' = Append(pQueue, Event("dataWrite", message))
         ELSE UNCHANGED pQueue
  /\ lastOp' = "send"
  /\ LogData(<<>>)
  /\ UNCHANGED tracing
  /\ UNCHANGED <<cVars, pVars, linkUp, cQueue, statusMonitor, dataMonitor>>
  /\ UNCHANGED <<statusLog, lastHandled, prevSession, linkEnd>>

\* disconnect(), called from the current render.
Disconnect ==
  /\ discPc = "idle"
  /\ DisconnectCall(connectedDevice, cQueue)
  /\ lastOp' = IF connectedDevice = NoDevice THEN "disconnected" ELSE "other"
  /\ LogData(<<>>)
  /\ UNCHANGED tracing
  /\ UNCHANGED <<connectedDevice, appAuthenticated, receivedMessages,
                 showPasswordModal, scanning, scanName, timers,
                 capturedDevice, connPc>>
  /\ UNCHANGED <<pVars, statusLog, lastHandled, prevSession>>

\* The Cancel button of the password modal: setShowPasswordModal(false);
\* disconnect().
CancelPrompt ==
  /\ showPasswordModal
  /\ discPc = "idle"
  /\ showPasswordModal' = FALSE
  /\ DisconnectCall(connectedDevice, cQueue)
  /\ lastOp' = IF connectedDevice = NoDevice THEN "disconnected" ELSE "other"
  /\ LogData(<<>>)
  /\ UNCHANGED tracing
  /\ UNCHANGED <<connectedDevice, appAuthenticated, receivedMessages,
                 scanning, scanName, timers, capturedDevice,
                 connPc>>
  /\ UNCHANGED <<pVars, statusLog, lastHandled, prevSession>>

\* disconnect(): cancelConnection() resolved; the six setters.
DisconnectResolved ==
  /\ discPc = "resolved"
  /\ MirrorReset
  /\ discPc' = "idle"
  /\ lastOp' = "disconnected"
  /\ LogData(<<>>)
  /\ UNCHANGED tracing
  /\ UNCHANGED <<scanning, scanName, timers, capturedDevice, connPc>>
  /\ UNCHANGED <<pVars, tVars, statusLog, lastHandled, prevSession, linkEnd>>

\* disconnect(): cancelConnection() rejected; the catch block.
DisconnectRejected ==
  /\ discPc = "rejected"
  /\ discPc' = "idle"
  /\ lastOp' = "disconnected"
  /\ LogData(<<>>)
  /\ UNCHANGED tracing
  /\ UNCHANGED <<connectedDevice, appAuthenticated, receivedMessages,
                 showPasswordModal, scanning, scanName, timers,
                 capturedDevice, connPc>>
  /\ UNCHANGED <<pVars, tVars, statusLog, lastHandled, prevSession, linkEnd>>

\* The link is lost.
LinkLoss ==
  /\ linkUp
  /\ LinkGoesDown(pQueue, "remote")
  /\ cQueue' \in {cQueue, <<>>}
  /\ LogData(<<>>)
  /\ UNCHANGED tracing
  /\ UNCHANGED <<pVars, cVars, statusLog, lastHandled, prevSession, lastOp>>

\* What the user does.
UserNext ==
  \/ ConnectToDeviceByName
  \/ EnterPassword
  \/ SubmitPassword
  \/ SendMessage
  \/ Disconnect
  \/ CancelPrompt

\* What the controller does by itself.
ControllerNext ==
  \/ ScanFound
  \/ ScanTimeout
  \/ ConnectOk
  \/ ConnectFail
  \/ DiscoverOk
  \/ DiscoverFail
  \/ DeliverStatus
  \/ DeliverData
  \/ DisconnectResolved
  \/ DisconnectRejected

Next == BleNext \/ LoopSend \/ ControllerNext \/ UserNext \/ LinkLoss

\* The controller with the peripheral.
Spec == Init /\ [][Next]_vars

(***************************************************************************)
(* Any peripheral, as the controller sees it: it takes the events queued   *)
(* for it and notifies any value on the two subscribed characteristics.    *)
(***************************************************************************)
PeerTokens == {"", "AUTH_REQUIRED", "AUTH_SUCCESS", "AUTH_FAILED:2",
               "AUTH_FAILED_MAX"}
PeerData == {"", "HeartRate:75,SpO2:98", "ESP32: ping"}

\* The peripheral's stack takes the next event; after a Disconnected event
\* the peripheral advertises again.
PeerHandle ==
  /\ pQueue # <<>>
  /\ pQueue' = Tail(pQueue)
  /\ advertising' = IF Head(pQueue).ev = "disconnect" THEN TRUE ELSE advertising
  /\ UNCHANGED <<deviceConnected, isAuthenticated, authAttempts, statusValue,
                 dataValue, cbPc, cbValue, loopPc>>
  /\ UNCHANGED <<linkUp, cQueue, statusMonitor, dataMonitor>>
  /\ UNCHANGED <<cVars, hVars>>

\* A notification on the Status characteristic.
PeerNotifyStatus ==
  /\ linkUp /\ statusMonitor
  /\ NotifyRoom
  /\ \E tok \in PeerTokens : cQueue' = Append(cQueue, Event("status", tok))
  /\ UNCHANGED <<pVars, linkUp, pQueue, statusMonitor, dataMonitor>>
  /\ UNCHANGED <<cVars, hVars>>

\* A notification on the Data characteristic.
PeerNotifyData ==
  /\ linkUp /\ dataMonitor
  /\ NotifyRoom
  /\ \E v \in PeerData : cQueue' = Append(cQueue, Event("data", v))
  /\ UNCHANGED <<pVars, linkUp, pQueue, statusMonitor, dataMonitor>>
  /\ UNCHANGED <<cVars, hVars>>

PeerNext ==
  \/ PeerHandle
  \/ PeerNotifyStatus
  \/ PeerNotifyData

\* The controller with an arbitrary peripheral.
ControllerSpec ==
  Init /\ [][ControllerNext \/ UserNext \/ PeerNext \/ LinkLoss]_vars

\* The same, with every step that waits for no user taken in the end.
FairSpec ==
  /\ Spec
  /\ WF_vars(BleNext)
  /\ WF_vars(ScanTimeout)
  /\ WF_vars(ConnectOk \/ ConnectFail)
  /\ WF_vars(DiscoverOk \/ DiscoverFail)
  /\ WF_vars(DeliverStatus \/ DeliverData)
  /\ WF_vars(DisconnectResolved \/ DisconnectRejected)

(***************************************************************************)
(* Properties of the peripheral.                                           *)
(***************************************************************************)
\* The payload the BLE task is about to handle.
HeadVal == Head(pQueue).val

\* AUTH_FAILED_MAX has been notified in the session in progress.
LockedOut ==
  deviceConnected /\ \E i \in 1..Len(statusLog) : statusLog[i] = AUTH_FAILED_MAX

\* C1: in every reachable state authAttempts is between 0 and maxAuthAttempts.
C1_AttemptsBounded == authAttempts >= 0 /\ authAttempts <= 3

\* C2: the third consecutive wrong Auth write notifies AUTH_FAILED_MAX and
\* ends the link, and an Auth write handled after AUTH_FAILED_MAX changes
\* neither isAuthenticated nor authAttempts and notifies nothing.
C2_LockoutIsFinal ==
  [][/\ (AuthOnWrite /\ ~isAuthenticated /\ authAttempts = 2
           /\ Len(HeadVal) > 0 /\ HeadVal \in {"wrong1", " "})
        => (statusLog' = Append(statusLog, "AUTH_FAILED_MAX") /\ ~linkUp')
     /\ (AuthOnWrite /\ LockedOut)
        => /\ isAuthenticated' = isAuthenticated
           /\ authAttempts' = authAttempts
           /\ statusLog' = statusLog]_vars

\* C3: right after every Connected event the session is in AwaitingAuth:
\* connected, not authenticated, no attempts counted, AUTH_REQUIRED notified.
C3_FreshOnConnect ==
  lastHandled = "onConnect" =>
    /\ deviceConnected = TRUE
    /\ isAuthenticated = FALSE
    /\ authAttempts = 0
    /\ statusValue = "AUTH_REQUIRED"
    /\ statusLog = <<"AUTH_REQUIRED">>

C3_Witness ==
  /\ lastHandled = "onConnect"
  /\ prevSession = "lockout"
  /\ deviceConnected

\* The payloads of AuthPayloads that are not empty and differ from the
\* secret after trimming, and those that equal it after trimming.
WrongPayloads == {"wrong1", " "}
RightPayloads == {"HEALTH2024", " HEALTH2024\n"}

\* C4: a non-empty Auth write that differs from the secret after trimming
\* adds exactly 1 to authAttempts and notifies AUTH_FAILED:<3 - authAttempts>
\* while the new count is below 3, AUTH_FAILED_MAX otherwise; three wrong
\* writes in a row from a fresh connection notify AUTH_FAILED:2,
\* AUTH_FAILED:1, AUTH_FAILED_MAX.
C4_WrongWriteCounts ==
  [][/\ (AuthOnWrite /\ HeadVal \in WrongPayloads)
        => /\ authAttempts' = authAttempts + 1
           /\ Len(statusLog') = Len(statusLog) + 1
           /\ SubSeq(statusLog', 1, Len(statusLog)) = statusLog
           /\ IF authAttempts' < 3
                THEN /\ 3 - authAttempts' >= 1
                     /\ statusLog'[Len(statusLog')] =
                          "AUTH_FAILED:" \o ToString(3 - authAttempts')
                ELSE statusLog'[Len(statusLog')] = "AUTH_FAILED_MAX"
     /\ (Len(statusLog') >= 4
           /\ \A i \in 2..4 : statusLog'[i] # "AUTH_SUCCESS")
        => SubSeq(statusLog', 1, 4) =
             <<"AUTH_REQUIRED", "AUTH_FAILED:2", "AUTH_FAILED:1",
               "AUTH_FAILED_MAX">>]_vars

C4_Witness ==
  /\ lastHandled = "authWrite"
  /\ authAttempts = 3
  /\ statusLog = <<"AUTH_REQUIRED", "AUTH_FAILED:2", "AUTH_FAILED:1",
                   "AUTH_FAILED_MAX">>

\* C5: in AwaitingAuth with fewer than 3 attempts counted, an Auth write
\* that equals the secret after trimming authenticates the session, sets
\* authAttempts to 0 and notifies AUTH_SUCCESS once.
C5_RightWriteAuthenticates ==
  [][(AuthOnWrite /\ deviceConnected /\ ~isAuthenticated /\ authAttempts < 3
        /\ HeadVal \in RightPayloads)
     => /\ isAuthenticated' = TRUE
        /\ authAttempts' = 0
        /\ deviceConnected' = TRUE
        /\ statusLog' = Append(statusLog, "AUTH_SUCCESS")]_vars

C5_Witness ==
  /\ lastHandled = "authWrite"
  /\ isAuthenticated /\ authAttempts = 0
  /\ statusLog = <<"AUTH_REQUIRED", "AUTH_FAILED:2", "AUTH_FAILED:1",
                   "AUTH_SUCCESS">>

\* C6: a Data write handled while the session is not authenticated notifies
\* nothing on Status or Data, starts no reply, and leaves deviceConnected,
\* isAuthenticated and authAttempts as they were.
C6_UnauthenticatedDataWriteIsNoOp ==
  [][(DataOnWrite /\ ~isAuthenticated)
     => /\ statusLog' = statusLog
        /\ statusValue' = statusValue
        /\ dataSent' = <<>>
        /\ cbPc' = "idle"
        /\ cQueue' = cQueue
        /\ deviceConnected' = deviceConnected
        /\ isAuthenticated' = isAuthenticated
        /\ authAttempts' = authAttempts]_vars

C6_Witness ==
  /\ lastHandled = "dataWrite"
  /\ deviceConnected /\ ~isAuthenticated
  /\ dataValue = "ping"
  /\ cbPc = "idle"

\* C7: the Data notification that answers an authenticated write of a
\* non-empty payload P carries "ESP32: " followed by P.
C7_EchoIsTagPlusPayload ==
  [][DataOnWriteNotify => dataSent' = <<"ESP32: " \o cbValue>>]_vars

\* C15: an Auth write handled while the session is authenticated changes
\* neither isAuthenticated nor authAttempts, notifies nothing on Status and
\* leaves the link up.
C15_AuthWriteWhenAuthenticatedIsNoOp ==
  [][(AuthOnWrite /\ deviceConnected /\ isAuthenticated)
     => /\ isAuthenticated' = TRUE
        /\ authAttempts' = authAttempts
        /\ statusLog' = statusLog
        /\ cQueue' = cQueue
        /\ linkUp' = linkUp]_vars

\* C18: in every reachable state isAuthenticated implies deviceConnected,
\* and every Disconnected event leaves deviceConnected = false,
\* isAuthenticated = false and authAttempts = 0.
C18_AuthenticatedOnlyWhileConnected ==
  /\ isAuthenticated => deviceConnected
  /\ [][/\ isAuthenticated' => deviceConnected'
        /\ BleOnDisconnect => /\ deviceConnected' = FALSE
                              /\ isAuthenticated' = FALSE
                              /\ authAttempts' = 0]_vars

C18_Witness ==
  /\ lastHandled = "onDisconnect"
  /\ prevSession = "authenticated"
  /\ ~deviceConnected /\ ~isAuthenticated /\ authAttempts = 0

\* C19: a write of the empty payload to the Auth or to the Data
\* characteristic, in any state, leaves deviceConnected, isAuthenticated and
\* authAttempts as they were, notifies nothing on Status or Data and starts
\* no reply.
C19_EmptyWriteIsNoOp ==
  [][((AuthOnWrite \/ DataOnWrite) /\ HeadVal = "")
     => /\ deviceConnected' = deviceConnected
        /\ isAuthenticated' = isAuthenticated
        /\ authAttempts' = authAttempts
        /\ statusLog' = statusLog
        /\ statusValue' = statusValue
        /\ dataSent' = <<>>
        /\ cQueue' = cQueue
        /\ cbPc' = cbPc
        /\ linkUp' = linkUp]_vars

C19_Witness ==
  /\ lastHandled = "dataWrite"
  /\ deviceConnected /\ isAuthenticated
  /\ dataValue = ""
  /\ cbPc = "idle"

\* C23: every step that notifies on the Data characteristic, the write
\* callback's reply or the loop's send, is taken in a state with
\* deviceConnected = true and isAuthenticated = true.
C23_DataNotifyOnlyWhenAuthenticated ==
  [][dataSent' # <<>> => (deviceConnected /\ isAuthenticated)]_vars

(***************************************************************************)
(* Properties of the controller.                                           *)
(***************************************************************************)
\* The mirror as the first render has it.
MirrorInitial ==
  /\ connectedDevice = "null"
  /\ appAuthenticated = FALSE
  /\ receivedMessages = <<>>
  /\ showPasswordModal = FALSE

\* C8: whenever a call of disconnect() has completed, whatever the state it
\* was called in, the mirror has its initial values.
C8_DisconnectResets == lastOp = "disconnected" => MirrorInitial

\* C9: once the Status handler registered by connect has handled
\* AUTH_FAILED_MAX, the prompt is closed, and when the disconnect() it
\* called has completed the mirror has its initial values.
C9_MaxAttemptsDisconnects ==
  lastOp = "statusMax" =>
    /\ showPasswordModal = FALSE
    /\ discPc = "idle" =>
         /\ connectedDevice = "null"
         /\ appAuthenticated = FALSE
         /\ receivedMessages = <<>>

\* C10: when the link has ended without a local disconnect(), the mirror
\* eventually has no connected device and is not authenticated.
C10_RemoteEndResetsMirror ==
  (linkEnd = "remote") ~> (connectedDevice = "null" /\ appAuthenticated = FALSE)

\* C11: once the controller has connected and subscribed to Status, it
\* eventually opens the password prompt for the AUTH_REQUIRED of that
\* connection, unless the link ends first.
C11_AuthRequiredReachesController ==
  (linkUp /\ statusMonitor) ~> (showPasswordModal \/ ~linkUp)

\* C12: sendMessage() queues a Data write only when the mirror's
\* isAuthenticated is true and the message is not blank, and the write
\* carries the message; when isAuthenticated is false it writes nothing and
\* changes nothing of the mirror.
C12_SendGatedOnAuthentication ==
  [][SendMessage =>
       /\ pQueue' # pQueue =>
            /\ appAuthenticated
            /\ \E m \in MessageInputs :
                 /\ Trim(m) # ""
                 /\ pQueue' = Append(pQueue, [ev |-> "dataWrite", val |-> m])
       /\ ~appAuthenticated =>
            /\ pQueue' = pQueue
            /\ UNCHANGED <<connectedDevice, appAuthenticated,
                           receivedMessages, showPasswordModal>>
            /\ UNCHANGED <<linkUp, cQueue, statusMonitor, dataMonitor>>]_vars

C12_Witness ==
  /\ lastOp = "send"
  /\ ~appAuthenticated
  /\ connectedDevice # "null" /\ linkUp
  /\ pQueue = <<>>

\* C13: the timeout of a locate call whose scan has matched does not report
\* not-found, and the scan is stopped on the match and on the timeout.
C13_NotFoundOnlyWithoutMatch ==
  [][/\ (ScanTimeout /\ Head(timers).found) => lastOp' # "notFound"
     /\ ScanFound => ~scanning'
     /\ ScanTimeout => ~scanning']_vars

\* C14: when connectToDevice has failed, and no disconnect() is in progress,
\* the mirror holds no connected device and no Status or Data subscription
\* is live.
C14_FailedConnectLeavesNothing ==
  (lastOp = "connectFailed" /\ discPc = "idle") =>
    /\ connectedDevice = "null"
    /\ ~statusMonitor
    /\ ~dataMonitor

\* C16: when a locate call is made while the timer of an earlier call is
\* armed, the earlier call's timeout neither stops the scan of the newer
\* call nor reports not-found.
C16_EarlierAttemptIsSuperseded ==
  [][(ScanTimeout /\ Len(timers) > 1)
     => /\ scanning' = scanning
        /\ lastOp' # "notFound"]_vars

\* C17: when a call of disconnect() has completed, no scan is running, no
\* scan-timeout timer is armed and no Status or Data subscription is live.
C17_DisconnectUnwindsPending ==
  lastOp = "disconnected" =>
    /\ ~scanning
    /\ timers = <<>>
    /\ ~statusMonitor
    /\ ~dataMonitor

\* C20: the Data monitor callback appends each non-empty value it is given
\* to the end of the received-message log, and the log changes in no other
\* way than by such an append or by the reset to the empty log.
C20_LogIsArrivalOrder ==
  [][/\ (DeliverData /\ Head(cQueue).val # "")
          => receivedMessages' = Append(receivedMessages, Head(cQueue).val)
     /\ receivedMessages' # receivedMessages
          => \/ receivedMessages' = <<>>
             \/ /\ cQueue # <<>>
                /\ Head(cQueue).ev = "data"
                /\ Head(cQueue).val # ""
                /\ cQueue' = Tail(cQueue)
                /\ receivedMessages' =
                     Append(receivedMessages, Head(cQueue).val)]_vars

C20_Witness ==
  /\ Len(receivedMessages) = 2
  /\ receivedMessages[1] # receivedMessages[2]
  /\ connectedDevice # "null"

\* C21: when the Status monitor callback is given AUTH_FAILED:<n>, the
\* handler shows n as the attempts left, leaves connectedDevice,
\* isAuthenticated and the received-message log as they were, and starts no
\* disconnect.
C21_AuthFailedOnlyReports ==
  [][(DeliverStatus /\ StartsWith(Head(cQueue).val, "AUTH_FAILED:"))
     => /\ lastOp' = "attemptsLeft:"
                       \o SubSeq(Head(cQueue).val, 13, Len(Head(cQueue).val))
        /\ connectedDevice' = connectedDevice
        /\ appAuthenticated' = appAuthenticated
        /\ receivedMessages' = receivedMessages
        /\ discPc' = discPc
        /\ linkUp' = linkUp
        /\ pQueue' = pQueue]_vars

C21_Witness ==
  /\ lastOp = "attemptsLeft:1"
  /\ connectedDevice # "null"
  /\ linkUp
  /\ ~appAuthenticated

\* C22: whenever connectToDevice is started with no disconnect() in
\* progress, the mirror is not authenticated and the received-message log
\* is empty.
C22_AttemptStartsFromInitialMirror ==
  [][(ScanFound /\ discPc = "idle")
     => (appAuthenticated = FALSE /\ receivedMessages = <<>>)]_vars

====
